---- MODULE Spec2Model ----
(***************************************************************************)
(* Model of the issue-triage inference path of bodhichristian/timely:      *)
(*   model_utils.load_model_artifacts, TextFeatureExtractor,               *)
(*   SmartIssueTriage (get_recommendations / predict / batch_predict) and  *)
(*   the session logic of app.main.                                        *)
(*                                                                         *)
(* Conventions                                                             *)
(*   - a Python str is a sequence of one-character strings;                *)
(*   - a Python dict is a function whose DOMAIN is its key set;            *)
(*   - probabilities, confidences and thresholds are exact numbers written *)
(*     in hundredths (80 is 0.8); x > t/2 is written 2*x > t;              *)
(*   - a call that raises yields a record with status "raised".            *)
(***************************************************************************)
EXTENDS Integers, Sequences, FiniteSets, TLC

VARIABLES
    fs,               \* file system: directory -> [exists, files]
    triage,           \* result of constructing SmartIssueTriage(model_dir)
    artifacts,        \* behaviour of the loaded (opaque, immutable) artifacts
    call,             \* arguments of the last call of the operation under study
    outcome,          \* what that call returned or raised
    session           \* streamlit session_state plus what the last run rendered

vars == <<fs, triage, artifacts, call, outcome, session>>

None == [status |-> "none", op |-> "none"]

(***************************************************************************)
(* Bounds of the model.                                                    *)
(***************************************************************************)
MaxPieces == 1        \* a title / body is a concatenation of at most this many pieces
MaxTextPieces == 1    \* same, for the joined text handed to extract_all_features
MaxBatch == 2         \* length of the list handed to batch_predict

(***************************************************************************)
(* Python str primitives.                                                  *)
(***************************************************************************)
UpperCase == <<"A","B","C","D","E","F","G","H","I","J","K","L","M",
               "N","O","P","Q","R","S","T","U","V","W","X","Y","Z">>
LowerCase == <<"a","b","c","d","e","f","g","h","i","j","k","l","m",
               "n","o","p","q","r","s","t","u","v","w","x","y","z">>

Whitespace == {" ", "\n", "\t", "\r"}

\* the grave accent character (U+0060), which a TLA+ string literal cannot hold
Backtick == "<backtick>"

\* the fenced-code marker: three grave accents
Fence == <<Backtick, Backtick, Backtick>>

LowerChar(c) ==
    IF \E i \in 1..26 : UpperCase[i] = c
    THEN LowerCase[CHOOSE i \in 1..26 : UpperCase[i] = c]
    ELSE c

\* str.lower()
Lower(s) == [i \in 1..Len(s) |-> LowerChar(s[i])]

\* c in s
Contains(s, c) == \E i \in 1..Len(s) : s[i] = c

StartsWith(s, sub) ==
    /\ Len(sub) <= Len(s)
    /\ \A i \in 1..Len(sub) : s[i] = sub[i]

\* str.count(sub): non-overlapping occurrences, scanning left to right
RECURSIVE Count(_, _)
Count(s, sub) ==
    IF Len(s) < Len(sub) THEN 0
    ELSE IF StartsWith(s, sub)
         THEN 1 + Count(SubSeq(s, Len(sub) + 1, Len(s)), sub)
         ELSE Count(Tail(s), sub)

\* len(str.split()): number of maximal runs of non-whitespace characters
WordCount(s) ==
    Cardinality({i \in 1..Len(s) :
        /\ s[i] \notin Whitespace
        /\ (i = 1 \/ s[i-1] \in Whitespace)})

\* int(bool)
BoolInt(b) == IF b THEN 1 ELSE 0

RECURSIVE SumCounts(_, _)
\* sum(s.count(word) for word in words)
SumCounts(s, words) ==
    IF words = <<>> THEN 0
    ELSE Count(s, Head(words)) + SumCounts(s, Tail(words))

\* index of the first "\n" of s, 0 when there is none
FirstNewline(s) ==
    IF Contains(s, "\n")
    THEN CHOOSE i \in 1..Len(s) : s[i] = "\n" /\ \A j \in 1..(i-1) : s[j] # "\n"
    ELSE 0

\* text.split('\n', 1)
SplitFirstNewline(s) ==
    LET k == FirstNewline(s) IN
    IF k = 0 THEN <<s>>
    ELSE <<SubSeq(s, 1, k - 1), SubSeq(s, k + 1, Len(s))>>

\* f"{title}\n{body}"
JoinText(title, body) == title \o <<"\n">> \o body

\* dict.update(): the keys of d are added to, or overwritten in, f
Update(f, d) == d @@ f

\* name = value, evaluated once, then Body(name): a local variable assignment
Bind(value, Body(_)) == CHOOSE r \in {Body(x) : x \in {value}} : TRUE

(***************************************************************************)
(* The inputs: texts built from the pieces the feature code looks for.     *)
(***************************************************************************)
Pieces == {
    <<"U","R","G","E","N","T">>,
    <<"!">>, <<"?">>, Fence, <<"\n">>, <<" ">>, <<"a">>,
    <<"h","t","t","p">>, <<"h","o","w">> }

RECURSIVE TextsUpTo(_)
TextsUpTo(n) ==
    IF n = 0 THEN {<<>>}
    ELSE LET shorter == TextsUpTo(n - 1)
         IN shorter \cup {t \o p : t \in shorter, p \in Pieces}

Titles == TextsUpTo(MaxPieces)
Bodies == TextsUpTo(MaxPieces)
Texts  == TextsUpTo(MaxTextPieces)

(***************************************************************************)
(* TextFeatureExtractor                                                    *)
(***************************************************************************)
TfidfWidth == 250
BertWidth == 384

structural_order == <<
    "created_hour", "created_day_of_week", "created_month",
    "n_days_to_resolution",
    "title_length", "body_length", "title_word_count", "body_word_count",
    "code_block_count", "url_count",
    "title_question_word_count", "title_has_question_mark",
    "body_question_word_count", "body_has_question_mark",
    "total_question_word_count", "total_has_question_mark",
    "includes_questions",
    "title_n_urgent_words", "title_has_exclamation",
    "body_n_urgent_words", "body_has_exclamation",
    "total_n_urgent_words", "total_has_exclamation",
    "urgency_score",
    "repo_encoded" >>

TfidfName(i) == "tfidf_" \o ToString(i)
BertName(i) == "bert_" \o ToString(i)

\* self.feature_order, as built by __init__
feature_order ==
    structural_order
      \o [i \in 1..TfidfWidth |-> TfidfName(i - 1)]
      \o [i \in 1..BertWidth |-> BertName(i - 1)]

FeatureNames == {feature_order[i] : i \in 1..Len(feature_order)}

question_words == <<
    <<"h","o","w">>, <<"w","h","a","t">>, <<"w","h","y">>, <<"w","h","e","n">>,
    <<"w","h","e","r","e">>, <<"w","h","i","c","h">>, <<"w","h","o">> >>

urgent_words == <<
    <<"u","r","g","e","n","t">>, <<"c","r","i","t","i","c","a","l">>,
    <<"a","s","a","p">>, <<"i","m","m","e","d","i","a","t","e">>,
    <<"e","m","e","r","g","e","n","c","y">>, <<"b","r","o","k","e","n">>,
    <<"e","r","r","o","r">>, <<"s","e","r","i","o","u","s">>,
    <<"s","e","c","u","r","i","t","y">> >>

\* the number of exclamation marks of a field
count_exclamation(field) == Count(field, <<"!">>)

\* int('!' in title), int('!' in body)
has_exclamation(field) == BoolInt(Contains(field, "!"))

\* a count of the fence markers that rounds an unpaired marker up
code_block_count_rounded_up(body) == (Count(body, Fence) + 1) \div 2

\* body.count(fence) // 2
code_block_count(body) == Count(body, Fence) \div 2

\* extract_basic_features(text, title, body): every name of feature_order at 0,
\* then the title, body, code-block, url, question and urgency fields
extract_basic_features(text, title, body) ==
    LET title_q   == SumCounts(Lower(title), question_words)
        body_q    == SumCounts(Lower(body), question_words)
        title_qm  == BoolInt(Contains(title, "?"))
        body_qm   == BoolInt(Contains(body, "?"))
        title_u   == SumCounts(Lower(title), urgent_words)
        body_u    == SumCounts(Lower(body), urgent_words)
        title_ex  == has_exclamation(title)
        body_ex   == has_exclamation(body)
        total_q   == title_q + body_q
        total_qm  == title_qm + body_qm
        total_u   == title_u + body_u
        total_ex  == title_ex + body_ex
        set ==
            "title_length" :> Len(title)
         @@ "title_word_count" :> WordCount(title)
         @@ "title_has_question_mark" :> title_qm
         @@ "title_has_exclamation" :> title_ex
         @@ "body_length" :> Len(body)
         @@ "body_word_count" :> WordCount(body)
         @@ "body_has_question_mark" :> body_qm
         @@ "body_has_exclamation" :> body_ex
         @@ "code_block_count" :> code_block_count(body)
         @@ "url_count" :> Count(Lower(body), <<"h","t","t","p">>)
         @@ "title_question_word_count" :> title_q
         @@ "body_question_word_count" :> body_q
         @@ "total_question_word_count" :> total_q
         @@ "total_has_question_mark" :> total_qm
         @@ "includes_questions" :> BoolInt(total_q > 0 \/ total_qm > 0)
         @@ "title_n_urgent_words" :> title_u
         @@ "body_n_urgent_words" :> body_u
         @@ "total_n_urgent_words" :> total_u
         @@ "total_has_exclamation" :> total_ex
         @@ "urgency_score" :> (total_u + total_ex)
    IN Update([n \in FeatureNames |-> 0], set)

(***************************************************************************)
(* The opaque artifacts.  artifacts is a record                            *)
(*   tfidf_width  number of columns of tfidf_vectorizer.transform([text])  *)
(*   bert_ndim    1 or 2: shape of bert_model.encode([text])               *)
(*   bert_width   length of the embedding                                  *)
(*   repo_classes repo_encoder.classes_ (sorted, frozen)                   *)
(*   clf          the classifier: feature digest -> per-class probability  *)
(* Their values are fixed once loaded; what they compute is outside the    *)
(* repository, so each is a deterministic stand-in that varies with its    *)
(* input.                                                                  *)
(***************************************************************************)

\* tfidf_vectorizer.transform([text]): a 1 x tfidf_width matrix, here its row 0
TfidfTransform(text) ==
    [i \in 1..artifacts.tfidf_width |-> (Len(text) + i) % 3]

\* bert_model.encode([text]): shape (bert_width,) or (1, bert_width)
BertEncode(text) ==
    [ndim |-> artifacts.bert_ndim,
     data |-> [i \in 1..artifacts.bert_width |-> ((Len(text) + 2 * i) % 5) - 2]]

\* repo_encoder.transform([repo])[0] on a repository name outside classes_,
\* had the encoder a default bucket
repo_transform_default(repo) ==
    LET cls == artifacts.repo_classes IN
    IF \E i \in 1..Len(cls) : cls[i] = repo
    THEN [status |-> "ok", value |-> (CHOOSE i \in 1..Len(cls) : cls[i] = repo) - 1]
    ELSE [status |-> "ok", value |-> 0]

\* repo_encoder.transform([repo])[0]: the 0-based position of repo in classes_;
\* LabelEncoder raises ValueError on a label it has not seen
repo_transform(repo) ==
    LET cls == artifacts.repo_classes IN
    IF \E i \in 1..Len(cls) : cls[i] = repo
    THEN [status |-> "ok", value |-> (CHOOSE i \in 1..Len(cls) : cls[i] = repo) - 1]
    ELSE [status |-> "raised", error |-> "ValueError"]

TfidfNames == {TfidfName(i) : i \in 0..(TfidfWidth - 1)}
BertNames == {BertName(i) : i \in 0..(BertWidth - 1)}
TfidfIndex == [n \in TfidfNames |-> CHOOSE i \in 0..(TfidfWidth - 1) : TfidfName(i) = n]
BertIndex == [n \in BertNames |-> CHOOSE i \in 0..(BertWidth - 1) : BertName(i) = n]

\* extract_tfidf_features looping over range(249): tfidf_249 is never written
extract_tfidf_features_short(text) ==
    LET m == TfidfTransform(text) IN
    [n \in TfidfNames \ {TfidfName(TfidfWidth - 1)} |->
        LET i == TfidfIndex[n] IN IF i < Len(m) THEN m[i + 1] ELSE 0]

\* extract_tfidf_features(text): tfidf_0 .. tfidf_249, 0 past the matrix width
extract_tfidf_features(text) ==
    LET m == TfidfTransform(text) IN
    [n \in TfidfNames |->
        LET i == TfidfIndex[n] IN IF i < Len(m) THEN m[i + 1] ELSE 0]

\* extract_bert_features(text): bert_0 .. bert_383 from either shape, 0 past
\* the embedding's length
extract_bert_features(text) ==
    LET e == BertEncode(text) IN
    IF e.ndim = 2
    THEN [n \in BertNames |->
            LET i == BertIndex[n] IN IF i < Len(e.data) THEN e.data[i + 1] ELSE 0]
    ELSE [n \in BertNames |->
            LET i == BertIndex[n] IN IF i < Len(e.data) THEN e.data[i + 1] ELSE 0]

\* pd.DataFrame([features])[order]: one row, the columns named by order in
\* that order; KeyError when a name of order is no key of features
SelectColumns(features, order) ==
    IF \A i \in 1..Len(order) : order[i] \in DOMAIN features
    THEN [status |-> "ok",
          columns |-> order,
          row |-> [i \in 1..Len(order) |-> features[order[i]]]]
    ELSE [status |-> "raised", error |-> "KeyError"]

\* parts = text.split('\n', 1); title = parts[0];
\* body = parts[1] if len(parts) > 1 else ''
title_and_body(text) ==
    LET parts == SplitFirstNewline(text)
    IN  [title |-> parts[1],
         body  |-> IF Len(parts) > 1 THEN parts[2] ELSE <<>>]

\* the first step of extract_all_features: the basic features of the title and
\* body recovered from the text
basic_features_of_text(text) ==
    LET parts == title_and_body(text)
    IN  extract_basic_features(text, parts.title, parts.body)

\* extract_all_features(text, repo, repo_encoder).  stages lists the feature
\* stages entered, in order.
extract_all_features(text, repo) ==
    LET f1    == basic_features_of_text(text)
        enc   == repo_transform(repo)
    IN  IF enc.status = "raised"
        THEN [status |-> "raised", error |-> enc.error,
              stages |-> <<"basic", "repo_encoder">>]
        ELSE LET f2 == Update(f1, "repo_encoded" :> enc.value)
                 f3 == Update(f2, extract_tfidf_features(text))
                 f4 == Update(f3, extract_bert_features(text))
             IN  Bind(SelectColumns(f4, feature_order), LAMBDA df :
                   IF df.status = "raised"
                   THEN [status |-> "raised", error |-> df.error,
                         stages |-> <<"basic", "repo_encoder", "tfidf", "bert">>]
                   ELSE [status |-> "ok", columns |-> df.columns, row |-> df.row,
                         stages |-> <<"basic", "repo_encoder", "tfidf", "bert">>])

(***************************************************************************)
(* SmartIssueTriage.get_recommendations                                    *)
(***************************************************************************)

\* label_encoder.inverse_transform(range(len(proba))): the category names in
\* the encoder's (sorted) class order
label_classes == <<"is_bug_cat", "is_doc_cat", "is_feature_cat", "is_priority_cat">>

\* self.confidence_thresholds, in hundredths
confidence_thresholds == [high |-> 80, medium |-> 60, low |-> 40]

\* list(zip(classes, proba))
ZipClasses(proba) ==
    [i \in 1..Len(proba) |-> [category |-> label_classes[i], confidence |-> proba[i]]]

\* a descending insertion that puts x before the entries of equal confidence
RECURSIVE InsertDesc_unstable(_, _)
InsertDesc_unstable(x, sorted) ==
    IF sorted = <<>> THEN <<x>>
    ELSE IF Head(sorted).confidence > x.confidence
         THEN <<Head(sorted)>> \o InsertDesc_unstable(x, Tail(sorted))
         ELSE <<x>> \o sorted

\* one step of the stable descending sort: x goes after every entry whose
\* confidence is greater than or equal to its own
RECURSIVE InsertDesc(_, _)
InsertDesc(x, sorted) ==
    IF sorted = <<>> THEN <<x>>
    ELSE IF Head(sorted).confidence >= x.confidence
         THEN <<Head(sorted)>> \o InsertDesc(x, Tail(sorted))
         ELSE <<x>> \o sorted

RECURSIVE SortDescFrom(_, _)
SortDescFrom(pairs, sorted) ==
    IF pairs = <<>> THEN sorted
    ELSE SortDescFrom(Tail(pairs), InsertDesc(Head(pairs), sorted))

\* pred_confidence.sort(key=lambda x: x[1], reverse=True): stable
SortByConfidenceDesc(pairs) == SortDescFrom(pairs, <<>>)

\* lst[lo:hi] of a Python list (0-based, hi exclusive, clipped to the list)
Slice(lst, lo, hi) ==
    SubSeq(lst, lo + 1, IF hi < Len(lst) THEN hi ELSE Len(lst))

\* cat in ['is_bug_cat', 'is_priority_cat']
action_needed(cat) == cat \in {"is_bug_cat", "is_priority_cat"}

Suggestion(pair) ==
    [category |-> pair.category,
     confidence |-> pair.confidence,
     action_needed |-> action_needed(pair.category)]

\* [x for x in lst if pred(x)], for the two comprehensions over pred_confidence
RECURSIVE SuggestionsAbove(_, _)
SuggestionsAbove(pairs, twice_cut) ==
    IF pairs = <<>> THEN <<>>
    ELSE (IF 2 * Head(pairs).confidence > twice_cut
          THEN <<Suggestion(Head(pairs))>> ELSE <<>>)
         \o SuggestionsAbove(Tail(pairs), twice_cut)

\* the comprehension with an inclusive cut: conf >= threshold
secondary_suggestions_inclusive(pred_confidence, threshold) ==
    SuggestionsAbove(Slice(pred_confidence, 1, 3), 2 * threshold - 1)

\* the secondary_suggestions comprehension of the recommendations literal:
\* pred_confidence[1:3] if conf > threshold
secondary_suggestions(pred_confidence, threshold) ==
    SuggestionsAbove(Slice(pred_confidence, 1, 3), 2 * threshold)

high_confidence_bug ==
    [type |-> "high_confidence_bug",
     message |-> "High confidence bug report - Immediate review recommended",
     priority |-> "high"]
medium_confidence_bug ==
    [type |-> "medium_confidence_bug",
     message |-> "Medium confidence bug report - Review within 24 hours",
     priority |-> "medium"]
clear_feature_request ==
    [type |-> "clear_feature_request",
     message |-> "Clear feature request - Add to product backlog",
     priority |-> "medium"]
documentation ==
    [type |-> "documentation",
     message |-> "Documentation issue - Tag for docs team review",
     priority |-> "medium"]
low_confidence ==
    [type |-> "low_confidence",
     message |-> "Low confidence prediction - Manual review recommended",
     priority |-> "medium"]

\* category_rules with the tier comparisons inclusive (>=)
category_rules_inclusive(primary_cat, primary_conf) ==
    IF primary_cat = "is_bug_cat"
    THEN IF primary_conf >= confidence_thresholds.high THEN <<high_confidence_bug>>
         ELSE IF primary_conf >= confidence_thresholds.medium
              THEN <<medium_confidence_bug>>
              ELSE <<>>
    ELSE IF primary_cat = "is_feature_cat"
    THEN IF primary_conf >= confidence_thresholds.medium
         THEN <<clear_feature_request>> ELSE <<>>
    ELSE IF primary_cat = "is_doc_cat"
    THEN IF primary_conf >= confidence_thresholds.medium
         THEN <<documentation>> ELSE <<>>
    ELSE <<>>

\* category_rules with the bug branch taken for every category but feature
\* and documentation
category_rules_no_bug_test(primary_cat, primary_conf) ==
    IF primary_cat = "is_feature_cat"
    THEN IF primary_conf > confidence_thresholds.medium
         THEN <<clear_feature_request>> ELSE <<>>
    ELSE IF primary_cat = "is_doc_cat"
    THEN IF primary_conf > confidence_thresholds.medium
         THEN <<documentation>> ELSE <<>>
    ELSE IF primary_conf > confidence_thresholds.high THEN <<high_confidence_bug>>
         ELSE IF primary_conf > confidence_thresholds.medium
              THEN <<medium_confidence_bug>>
              ELSE <<>>

\* the if / elif chain on primary_cat: what it appends to triage_recommendations
category_rules(primary_cat, primary_conf) ==
    IF primary_cat = "is_bug_cat"
    THEN IF primary_conf > confidence_thresholds.high THEN <<high_confidence_bug>>
         ELSE IF primary_conf > confidence_thresholds.medium
              THEN <<medium_confidence_bug>>
              ELSE <<>>
    ELSE IF primary_cat = "is_feature_cat"
    THEN IF primary_conf > confidence_thresholds.medium
         THEN <<clear_feature_request>> ELSE <<>>
    ELSE IF primary_cat = "is_doc_cat"
    THEN IF primary_conf > confidence_thresholds.medium
         THEN <<documentation>> ELSE <<>>
    ELSE <<>>

\* low_confidence_step comparing against the whole threshold over ranks 1-2
low_confidence_step_narrow(pred_confidence, primary_conf, threshold) ==
    IF primary_conf < confidence_thresholds.low
    THEN [recommendations |-> <<low_confidence>>,
          suggestions |-> SuggestionsAbove(Slice(pred_confidence, 1, 3), 2 * threshold)]
    ELSE [recommendations |-> <<>>, suggestions |-> <<>>]

\* the confidence-based block: below the low cut-point it appends low_confidence
\* and extends secondary_suggestions with pred_confidence[1:4] if conf > threshold / 2
low_confidence_step(pred_confidence, primary_conf, threshold) ==
    IF primary_conf < confidence_thresholds.low
    THEN [recommendations |-> <<low_confidence>>,
          suggestions |-> SuggestionsAbove(Slice(pred_confidence, 1, 4), threshold)]
    ELSE [recommendations |-> <<>>, suggestions |-> <<>>]

\* get_recommendations, from the probabilities predict_proba returned
get_recommendations(proba, threshold) ==
    LET pred_confidence == SortByConfidenceDesc(ZipClasses(proba))
        primary == Suggestion(pred_confidence[1])
        low == low_confidence_step(pred_confidence, primary.confidence, threshold)
    IN  [primary_category |-> primary,
         secondary_suggestions |->
             secondary_suggestions(pred_confidence, threshold) \o low.suggestions,
         triage_recommendations |->
             category_rules(primary.category, primary.confidence)
                 \o low.recommendations]

(***************************************************************************)
(* SmartIssueTriage.predict and batch_predict                              *)
(***************************************************************************)

\* position (1-based) of each column of the frame the classifier was trained on
PositionOf ==
    [n \in FeatureNames |-> CHOOSE i \in 1..Len(feature_order) : feature_order[i] = n]

\* what the classifier keys its answer on: any deterministic function of the
\* row will do, the classifier being opaque; like the classifier it reads the
\* row by position
FeatureDigest(df) ==
    LET row == df.row IN
    (row[PositionOf["title_length"]] + row[PositionOf["body_length"]]
       + row[PositionOf["repo_encoded"]] + row[PositionOf["urgency_score"]]
       + row[PositionOf["tfidf_0"]]) % 2

\* self.model.predict_proba(features)[0]
predict_proba(df) == artifacts.clf[FeatureDigest(df)]

\* self.model.predict_proba(features_df) raises on the rows of clf_fails
predict_proba_raises(df) == FeatureDigest(df) \in artifacts.clf_fails

\* predict(title, body, repo, threshold)
predict(title, body, repo, threshold) ==
    LET text == JoinText(title, body) IN
    Bind(extract_all_features(text, repo), LAMBDA features :
        IF features.status = "raised"
        THEN [status |-> "raised", error |-> features.error,
              stages |-> features.stages]
        ELSE IF predict_proba_raises(features)
        THEN [status |-> "raised", error |-> "ValueError",
              stages |-> features.stages \o <<"classifier">>]
        ELSE Bind(get_recommendations(predict_proba(features), threshold),
               LAMBDA recommendations :
                 [status |-> "ok",
                  stages |-> features.stages \o <<"classifier">>,
                  result |->
                      [primary_category |-> recommendations.primary_category,
                       secondary_suggestions |-> recommendations.secondary_suggestions,
                       triage_recommendations |-> recommendations.triage_recommendations,
                       repo_context |->
                           [repository |-> repo,
                            typical_response_time |-> "2-3 days",
                            similar_issues_count |-> 5]]]))

\* the list comprehension of batch_predict: one predict per issue, in order;
\* an exception raised by predict leaves the comprehension, and batch_predict
RECURSIVE batch_comprehension(_, _, _)
batch_comprehension(issues, threshold, acc) ==
    IF issues = <<>> THEN [status |-> "ok", result |-> acc]
    ELSE LET issue == Head(issues)
             r == predict(issue.title, issue.body, issue.repo, threshold)
         IN  IF r.status = "raised"
             THEN [status |-> "raised", error |-> r.error]
             ELSE batch_comprehension(Tail(issues), threshold, Append(acc, r.result))

\* batch_predict that predicts every issue with the first issue's repository
batch_predict_first_repo(issues, threshold) ==
    batch_comprehension(
        [i \in 1..Len(issues) |->
            [title |-> issues[i].title, body |-> issues[i].body,
             repo |-> issues[1].repo]],
        threshold, <<>>)

\* batch_predict(issues, threshold)
batch_predict(issues, threshold) == batch_comprehension(issues, threshold, <<>>)

(***************************************************************************)
(* Inputs and artifacts of the feature and prediction specifications.      *)
(***************************************************************************)
KnownRepos == <<"angular/angular", "microsoft/vscode">>
Repos == {"angular/angular", "microsoft/vscode", "totally/unknown-repo"}

TfidfWidths == {TfidfWidth - 1, TfidfWidth, TfidfWidth + 1}
BertWidths == {BertWidth - 1, BertWidth, BertWidth + 1}

(***************************************************************************)
(* SpecFeat: extract_all_features applied to a text and a repository.      *)
(***************************************************************************)
InitFeat ==
    /\ fs = None
    /\ triage = None
    /\ session = None
    /\ artifacts \in [tfidf_width : TfidfWidths, bert_ndim : {1, 2},
                      bert_width : BertWidths,
                      repo_classes : {KnownRepos}, clf : {None},
                      clf_fails : {{}}]
    /\ call \in [op : {"extract_all_features"}, text : Texts, repo : Repos]
    /\ outcome = None

ExtractAllFeatures ==
    /\ call.op = "extract_all_features"
    /\ outcome = None
    /\ outcome' = extract_all_features(call.text, call.repo)
    /\ UNCHANGED <<fs, triage, artifacts, call, session>>

NextFeat == ExtractAllFeatures

SpecFeat == InitFeat /\ [][NextFeat]_vars

(***************************************************************************)
(* SpecText: the text stage of predict applied to a title and a body: the  *)
(* two are joined, split again at the first newline, and the basic         *)
(* features are taken from the recovered title and body.                   *)
(***************************************************************************)
MaxBodyPieces == 2

IssueBodies == TextsUpTo(MaxBodyPieces)

InitText ==
    /\ fs = None
    /\ triage = None
    /\ session = None
    /\ artifacts = None
    /\ call \in [op : {"basic_features"}, title : Titles, body : IssueBodies]
    /\ outcome = None

BasicFeatures ==
    /\ call.op = "basic_features"
    /\ outcome = None
    /\ LET text  == JoinText(call.title, call.body)
           parts == title_and_body(text)
       IN  outcome' = [status |-> "ok",
                       title |-> parts.title, body |-> parts.body,
                       features |-> basic_features_of_text(text)]
    /\ UNCHANGED <<fs, triage, artifacts, call, session>>

NextText == BasicFeatures

SpecText == InitText /\ [][NextText]_vars

(***************************************************************************)
(* SpecRank: get_recommendations applied to a probability vector and a     *)
(* threshold.  Probabilities are the multiples of 0.05 that sum to 1.      *)
(***************************************************************************)
ProbaLevels == {5 * k : k \in 0..20}

ProbaVectors ==
    {<<a, b, c, 100 - a - b - c>> : a, b, c \in ProbaLevels} \cap
        [1..4 -> ProbaLevels]

Thresholds == {0, 20, 25, 30}

InitRank ==
    /\ fs = None
    /\ triage = None
    /\ session = None
    /\ artifacts = None
    /\ call \in [op : {"get_recommendations"}, proba : ProbaVectors,
                 threshold : Thresholds]
    /\ outcome = None

GetRecommendations ==
    /\ call.op = "get_recommendations"
    /\ outcome = None
    /\ outcome' = [status |-> "ok",
                   result |-> get_recommendations(call.proba, call.threshold)]
    /\ UNCHANGED <<fs, triage, artifacts, call, session>>

NextRank == GetRecommendations

SpecRank == InitRank /\ [][NextRank]_vars

(***************************************************************************)
(* SpecTriage: predict and batch_predict on a loaded triage object.        *)
(***************************************************************************)
Urgent == <<"U","R","G","E","N","T">>

ClfVectors == {<<90, 5, 3, 2>>, <<35, 30, 25, 10>>}
ClfTables == [0..1 -> ClfVectors]

StandardArtifacts ==
    [tfidf_width : {TfidfWidth}, bert_ndim : {2}, bert_width : {BertWidth},
     repo_classes : {KnownRepos}, clf : ClfTables, clf_fails : {{}}]

PredictBodies == {<<>>, <<"a">>, <<"!">>}
BatchIssues == [title : {<<"a">>, Urgent}, body : {<<>>}, repo : Repos]
DefaultThreshold == 20

RECURSIVE SeqsUpTo(_, _)
SeqsUpTo(S, n) ==
    IF n = 0 THEN {<<>>}
    ELSE LET shorter == SeqsUpTo(S, n - 1)
         IN shorter \cup {Append(q, x) : q \in shorter, x \in S}

InitTriage ==
    /\ fs = None
    /\ triage = None
    /\ session = None
    /\ artifacts \in StandardArtifacts
    /\ call \in [op : {"predict"}, title : Titles, body : PredictBodies,
                 repo : Repos, threshold : {DefaultThreshold, 30}]
            \cup [op : {"batch_predict"}, issues : SeqsUpTo(BatchIssues, MaxBatch),
                  threshold : {DefaultThreshold}]
            \cup [op : {"extract_all_features"}, text : Texts, repo : Repos]
    /\ outcome = None

Predict ==
    /\ call.op = "predict"
    /\ outcome = None
    /\ outcome' = predict(call.title, call.body, call.repo, call.threshold)
    /\ UNCHANGED <<fs, triage, artifacts, call, session>>

BatchPredict ==
    /\ call.op = "batch_predict"
    /\ outcome = None
    /\ outcome' = batch_predict(call.issues, call.threshold)
    /\ UNCHANGED <<fs, triage, artifacts, call, session>>

NextTriage == ExtractAllFeatures \/ Predict \/ BatchPredict

SpecTriage == InitTriage /\ [][NextTriage]_vars

(***************************************************************************)
(* model_utils: save_model_artifacts / load_model_artifacts, and           *)
(* SmartIssueTriage.__init__.  fs maps a directory path to whether it      *)
(* exists and to the artifact names whose <name>.joblib it holds.          *)
(***************************************************************************)
required_files == <<"model", "tfidf_vectorizer", "label_encoder", "repo_encoder">>

ArtifactNames == {required_files[i] : i \in 1..Len(required_files)}

Dirs == {"model_artifacts", "other_dir"}

\* joblib.load(file_path): the object stored in that file
JoblibLoad(model_dir, name) == [dir |-> model_dir, artifact |-> name]

\* the loop over required_files: presence check, then load, in list order
RECURSIVE load_loop(_, _, _, _)
load_loop(files, model_dir, names, loaded) ==
    IF names = <<>> THEN [status |-> "ok", artifacts |-> loaded]
    ELSE LET name == Head(names) IN
         IF name \notin files[model_dir].files
         THEN [status |-> "raised", error |-> "ValueError",
               message |-> <<"Required artifact not found", model_dir, name>>]
         ELSE load_loop(files, model_dir, Tail(names),
                        Update(loaded, name :> JoblibLoad(model_dir, name)))

\* load_model_artifacts that loads what is there and skips what is absent
RECURSIVE load_present(_, _, _, _)
load_present(files, model_dir, names, loaded) ==
    IF names = <<>> THEN [status |-> "ok", artifacts |-> loaded]
    ELSE LET name == Head(names) IN
         IF name \notin files[model_dir].files
         THEN load_present(files, model_dir, Tail(names), loaded)
         ELSE load_present(files, model_dir, Tail(names),
                           Update(loaded, name :> JoblibLoad(model_dir, name)))

load_model_artifacts_lenient(files, model_dir) ==
    IF ~ files[model_dir].exists
    THEN [status |-> "raised", error |-> "ValueError",
          message |-> <<"Model directory does not exist", model_dir>>]
    ELSE load_present(files, model_dir, required_files, <<>>)

\* load_model_artifacts(model_dir), reading the file system files
load_model_artifacts(files, model_dir) ==
    IF ~ files[model_dir].exists
    THEN [status |-> "raised", error |-> "ValueError",
          message |-> <<"Model directory does not exist", model_dir>>]
    ELSE load_loop(files, model_dir, required_files, <<>>)

\* dict[key]: KeyError when the key is absent
GetItem(d, key) ==
    IF key \in DOMAIN d THEN [status |-> "ok", value |-> d[key]]
    ELSE [status |-> "raised", error |-> "KeyError"]

\* SmartIssueTriage.__init__(model_dir): load the bundle, then read its four
\* members; an exception from either leaves no object
SmartIssueTriage_init(files, model_dir) ==
    Bind(load_model_artifacts(files, model_dir), LAMBDA loaded :
        IF loaded.status = "raised" THEN loaded
        ELSE IF \E i \in 1..Len(required_files) :
                    GetItem(loaded.artifacts, required_files[i]).status = "raised"
        THEN [status |-> "raised", error |-> "KeyError",
              message |-> <<"missing key", model_dir,
                            required_files[CHOOSE i \in 1..Len(required_files) :
                                /\ required_files[i] \notin DOMAIN loaded.artifacts
                                /\ \A j \in 1..(i-1) :
                                      required_files[j] \in DOMAIN loaded.artifacts]>>]
        ELSE [status |-> "ok",
              artifacts |-> loaded.artifacts,
              model |-> loaded.artifacts["model"],
              tfidf_vectorizer |-> loaded.artifacts["tfidf_vectorizer"],
              label_encoder |-> loaded.artifacts["label_encoder"],
              repo_encoder |-> loaded.artifacts["repo_encoder"]])

\* save_model_artifacts(..., output_dir): makes the directory when absent and
\* dumps the four artifacts into it
save_model_artifacts(files, output_dir) ==
    [files EXCEPT ![output_dir] =
        [exists |-> TRUE, files |-> files[output_dir].files \cup ArtifactNames]]

DirStates ==
    {[exists |-> FALSE, files |-> {}]}
        \cup [exists : {TRUE}, files : SUBSET ArtifactNames]

InitLoad ==
    /\ fs \in [Dirs -> DirStates]
    /\ triage = None
    /\ session = None
    /\ artifacts = None
    /\ call = None
    /\ outcome = None

\* a process starts and constructs SmartIssueTriage(model_dir)
Construct ==
    \E model_dir \in Dirs :
        /\ call' = [op |-> "SmartIssueTriage", model_dir |-> model_dir, fs |-> fs]
        /\ outcome' = load_model_artifacts(fs, model_dir)
        /\ triage' = SmartIssueTriage_init(fs, model_dir)
        /\ UNCHANGED <<fs, artifacts, session>>

\* the export script writes a bundle
SaveModelArtifacts ==
    \E output_dir \in Dirs :
        /\ fs' = save_model_artifacts(fs, output_dir)
        /\ UNCHANGED <<triage, artifacts, call, outcome, session>>

NextLoad == Construct \/ SaveModelArtifacts

SpecLoad == InitLoad /\ [][NextLoad]_vars

(***************************************************************************)
(* app.main: one run of the streamlit script per user event.  session is   *)
(* st.session_state; an optional key is a record [present, value].         *)
(* rendered is what the run put on the page.                               *)
(***************************************************************************)
Absent == [present |-> FALSE, value |-> None]
Present(v) == [present |-> TRUE, value |-> v]

\* d.get(key, default)
DictGet(d, key, default) == IF key \in DOMAIN d THEN d[key] ELSE default

\* repo_options: the sorted classes_ of the repository encoder, or the
\* placeholder when there are none
repo_options ==
    IF artifacts.repo_classes = <<>> THEN <<"unknown_repo">>
    ELSE artifacts.repo_classes

\* the reset block at the top of main
HandleReset(s) ==
    IF s.do_reset
    THEN [s EXCEPT !.input_title = <<>>, !.input_body = <<>>,
                   !.input_repo = repo_options[1],
                   !.last_pred = Absent, !.selected_tags = Absent,
                   !.do_reset = FALSE]
    ELSE s

\* the form: a submit commits the typed values to the widgets' keys
FormValues(s, ev) ==
    IF ev.kind = "submit"
    THEN [s EXCEPT !.input_title = ev.title, !.input_body = ev.body,
                   !.input_repo = ev.repo]
    ELSE s

\* the submit block with a failed prediction discarding the stored one
HandleSubmit_clear_on_error(s, ev) ==
    IF ev.kind # "submit"
    THEN [session |-> s, warning |-> FALSE, error |-> FALSE, predicted |-> None]
    ELSE IF s.input_title = <<>> /\ s.input_body = <<>>
    THEN [session |-> s, warning |-> TRUE, error |-> FALSE, predicted |-> None]
    ELSE Bind(predict(s.input_title, s.input_body, s.input_repo, DefaultThreshold),
           LAMBDA r :
             IF r.status = "ok"
             THEN [session |-> [s EXCEPT !.last_pred = Present(r.result)],
                   warning |-> FALSE, error |-> FALSE, predicted |-> r]
             ELSE [session |-> [s EXCEPT !.last_pred = Absent],
                   warning |-> FALSE, error |-> TRUE, predicted |-> r])

\* the "if submitted:" block: [session, warning, error, predicted]
HandleSubmit(s, ev) ==
    IF ev.kind # "submit"
    THEN [session |-> s, warning |-> FALSE, error |-> FALSE, predicted |-> None]
    ELSE IF s.input_title = <<>> /\ s.input_body = <<>>
    THEN [session |-> s, warning |-> TRUE, error |-> FALSE, predicted |-> None]
    ELSE Bind(predict(s.input_title, s.input_body, s.input_repo, DefaultThreshold),
           LAMBDA r :
             IF r.status = "ok"
             THEN [session |-> [s EXCEPT !.last_pred = Present(r.result)],
                   warning |-> FALSE, error |-> FALSE, predicted |-> r]
             ELSE [session |-> s, warning |-> FALSE, error |-> TRUE,
                   predicted |-> r])

\* the tag buttons: a click on the button of tags[i] (i counted from 0) adds
\* the tag to selected_tags, or discards it when it is selected
ToggleTag(selected, tags, ev) ==
    IF ev.kind = "tag" /\ ev.index < Len(tags)
    THEN LET tag == DictGet(tags[ev.index + 1], "tag", <<>>)
         IN  IF tag \in selected THEN selected \ {tag} ELSE selected \cup {tag}
    ELSE selected

\* the rendering block: pred = session_state.get('last_pred'); if pred: ...
Render(s, warning, error, ev) ==
    IF s.last_pred.present
    THEN LET tags == DictGet(s.last_pred.value, "suggested_tags", <<>>)
             selected == IF s.selected_tags.present THEN s.selected_tags.value
                         ELSE {}
         IN  [session |-> [s EXCEPT !.selected_tags =
                               Present(ToggleTag(selected, tags, ev))],
              page |-> [warning |-> warning, error |-> error, shown |-> TRUE,
                        tags |-> tags]]
    ELSE [session |-> s,
          page |-> [warning |-> warning, error |-> error, shown |-> FALSE,
                    tags |-> <<>>]]

NoEvent == [kind |-> "none"]

\* one run of main() on event ev; a click on Reset sets do_reset and reruns
\* the script at once, so that run ends as the rerun does
RECURSIVE main(_, _)
main(s, ev) ==
    Bind(HandleSubmit(FormValues(HandleReset(s), ev), ev), LAMBDA sub :
        IF ev.kind = "reset"
        THEN Bind(main([sub.session EXCEPT !.do_reset = TRUE], NoEvent), LAMBDA again :
                [session |-> again.session, page |-> again.page,
                 predicted |-> sub.predicted])
        ELSE Bind(Render(sub.session, sub.warning, sub.error, ev), LAMBDA out :
                [session |-> out.session, page |-> out.page,
                 predicted |-> sub.predicted]))

UITitles == {<<>>, Urgent \o <<"!">>}
UIBodies == {<<>>, <<"a">>}
RepoOptions == {repo_options[i] : i \in 1..Len(repo_options)}

InitUI ==
    /\ fs = None
    /\ triage = None
    /\ artifacts \in [tfidf_width : {TfidfWidth}, bert_ndim : {2},
                      bert_width : {BertWidth},
                      repo_classes : {KnownRepos, <<>>}, clf : ClfTables,
                      clf_fails : {{}, {1}}]
    /\ call = None
    /\ outcome = None
    /\ session = [state |-> [input_title |-> <<>>, input_body |-> <<>>,
                             input_repo |-> repo_options[1],
                             last_pred |-> Absent, selected_tags |-> Absent,
                             do_reset |-> FALSE],
                  page |-> [warning |-> FALSE, error |-> FALSE, shown |-> FALSE,
                            tags |-> <<>>]]

\* the user fills the form and presses Get Tags
Submit ==
    \E title \in UITitles, body \in UIBodies, repo \in RepoOptions :
        LET ev == [kind |-> "submit", title |-> title, body |-> body, repo |-> repo]
        IN  \E run \in {main(session.state, ev)} :
              /\ session' = [state |-> run.session, page |-> run.page]
              /\ call' = [op |-> "submit", title |-> title, body |-> body,
                          repo |-> repo, before |-> session.state]
              /\ outcome' = run.predicted
              /\ UNCHANGED <<fs, triage, artifacts>>

\* the buttons of the page below the form: Reset, always, and one button per
\* rendered tag
PageButtons(page) ==
    {[kind |-> "reset"]} \cup
    {[kind |-> "tag", index |-> i] : i \in 0..(Len(page.tags) - 1)}

\* the user presses one of the buttons of the page
Click ==
    \E ev \in PageButtons(session.page) :
        \E run \in {main(session.state, ev)} :
            /\ session' = [state |-> run.session, page |-> run.page]
            /\ call' = [op |-> ev.kind, before |-> session.state]
            /\ outcome' = run.predicted
            /\ UNCHANGED <<fs, triage, artifacts>>

NextUI == Submit \/ Click

SpecUI == InitUI /\ [][NextUI]_vars

(***************************************************************************)
(* Properties.                                                             *)
(***************************************************************************)
Done == outcome.status # "none"

Suggestions(result) == <<result.primary_category>> \o result.secondary_suggestions

\* the ranked (category, confidence) list of the call of get_recommendations
Ranked == SortByConfidenceDesc(ZipClasses(call.proba))

Types(recs) == {recs[i].type : i \in 1..Len(recs)}
Categories(suggs) == {suggs[i].category : i \in 1..Len(suggs)}

RepoInVocabulary(repo) ==
    \E i \in 1..Len(artifacts.repo_classes) : artifacts.repo_classes[i] = repo

\* C1: every result of predict holds at most 3 suggestions (the primary category
\* followed by secondary_suggestions), sorted by confidence descending, each
\* with a confidence in [0, 1].
C1_AtMostThreeSortedSuggestions ==
    (call.op = "predict" /\ outcome.status = "ok") =>
        LET sugg == Suggestions(outcome.result) IN
        /\ Len(sugg) <= 3
        /\ \A i \in 1..(Len(sugg) - 1) : sugg[i].confidence >= sugg[i + 1].confidence
        /\ \A i \in 1..Len(sugg) : sugg[i].confidence \in 0..100

\* the three highest-probability (tag, confidence) pairs, in descending order
TopThreeTags(proba) ==
    LET ranked == Slice(SortByConfidenceDesc(ZipClasses(proba)), 0, 3) IN
    [i \in 1..Len(ranked) |->
        [tag |-> ranked[i].category, confidence |-> ranked[i].confidence]]

\* C2: after a successful submit the result of predict carries suggested_tags,
\* and the list the page reads under that key is exactly the three
\* highest-probability (tag, confidence) pairs in descending order.
C2_SuggestedTagsAreTopThree ==
    (call.op = "submit" /\ outcome.status = "ok") =>
        /\ "suggested_tags" \in DOMAIN outcome.result
        /\ session.page.tags =
             TopThreeTags(predict_proba(
                 extract_all_features(JoinText(call.title, call.body), call.repo)))

\* C3: on a repository outside the frozen vocabulary extract_all_features and
\* predict raise: no feature row and no result comes back, and the TF-IDF,
\* embedding and classifier stages are never entered.
C3_UnknownRepoRaises ==
    (Done /\ call.op \in {"extract_all_features", "predict"}
          /\ ~ RepoInVocabulary(call.repo)) =>
        /\ outcome.status = "raised"
        /\ outcome.error = "ValueError"
        /\ DOMAIN outcome \cap {"row", "columns", "result"} = {}
        /\ outcome.stages = <<"basic", "repo_encoder">>

C3_Witness ==
    /\ call.op = "predict"
    /\ call.repo = "totally/unknown-repo"
    /\ outcome.status = "raised"

\* C4: for every text, known repository and width or shape of the vectors the
\* TF-IDF vectorizer and the embedding encoder return, extract_all_features
\* returns one row of 24 + 1 + 250 + 384 columns named and placed as
\* feature_order says: the structural fields, repo_encoded, tfidf_0..tfidf_249,
\* bert_0..bert_383; a position a stage supplies holds the stage's value and
\* every other position holds 0.
C4_FeatureRowShape ==
    (Done /\ call.op = "extract_all_features" /\ RepoInVocabulary(call.repo)) =>
        /\ outcome.status = "ok"
        /\ Len(outcome.row) = 24 + 1 + 250 + 384
        /\ Len(outcome.columns) = Len(outcome.row)
        /\ SubSeq(outcome.columns, 1, 25) = structural_order
        /\ outcome.columns[25] = "repo_encoded"
        /\ \A i \in 0..249 :
              /\ outcome.columns[26 + i] = "tfidf_" \o ToString(i)
              /\ outcome.row[26 + i] =
                    IF i < artifacts.tfidf_width
                    THEN TfidfTransform(call.text)[i + 1] ELSE 0
        /\ \A i \in 0..383 :
              /\ outcome.columns[276 + i] = "bert_" \o ToString(i)
              /\ outcome.row[276 + i] =
                    IF i < artifacts.bert_width
                    THEN BertEncode(call.text).data[i + 1] ELSE 0
        /\ \A i \in 1..4 : outcome.row[i] = 0

C4_Witness ==
    /\ call.op = "extract_all_features"
    /\ call.text = <<>>
    /\ artifacts.tfidf_width < TfidfWidth
    /\ artifacts.bert_width > BertWidth
    /\ artifacts.bert_ndim = 1
    /\ outcome.status = "ok"
    /\ outcome.row[26 + 249] = 0

FirstAbsent(present) ==
    required_files[CHOOSE i \in 1..Len(required_files) :
        /\ required_files[i] \notin present
        /\ \A j \in 1..(i - 1) : required_files[j] \in present]

\* C5: load_model_artifacts has exactly three outcomes: the missing-directory
\* error when the directory does not exist; otherwise an error naming the
\* first absent artifact in the order model, tfidf_vectorizer, label_encoder,
\* repo_encoder; otherwise a bundle with exactly those four keys.  No bundle
\* has fewer than four artifacts and no SmartIssueTriage is built from one.
C5_LoadOutcomes ==
    (call.op = "SmartIssueTriage") =>
        LET d == call.fs[call.model_dir] IN
        /\ ~ d.exists =>
              /\ outcome.status = "raised"
              /\ outcome.message = <<"Model directory does not exist", call.model_dir>>
        /\ (d.exists /\ ~ (ArtifactNames \subseteq d.files)) =>
              /\ outcome.status = "raised"
              /\ outcome.message =
                    <<"Required artifact not found", call.model_dir, FirstAbsent(d.files)>>
        /\ (d.exists /\ ArtifactNames \subseteq d.files) =>
              outcome.status = "ok"
        /\ outcome.status = "ok" => DOMAIN outcome.artifacts = ArtifactNames
        /\ (triage.status = "ok") = (outcome.status = "ok")
        /\ triage.status = "ok" => DOMAIN triage.artifacts = ArtifactNames

C5_Witness ==
    /\ call.op = "SmartIssueTriage"
    /\ call.fs[call.model_dir].files = {"model", "tfidf_vectorizer", "repo_encoder"}
    /\ outcome.status = "raised"
    /\ outcome.message =
          <<"Required artifact not found", call.model_dir, "label_encoder">>

PredictIssue(issue) == predict(issue.title, issue.body, issue.repo, call.threshold)

\* C6: when predict fails for one item of a batch, batch_predict still returns
\* a list in which the sibling items have their results.
C6_FailureKeepsSiblings ==
    (Done /\ call.op = "batch_predict"
          /\ \E i \in 1..Len(call.issues) : ~ RepoInVocabulary(call.issues[i].repo)) =>
        /\ outcome.status = "ok"
        /\ \A i \in 1..Len(call.issues) :
              RepoInVocabulary(call.issues[i].repo) =>
                  \E j \in 1..Len(outcome.result) :
                      outcome.result[j] = PredictIssue(call.issues[i]).result

\* C7: on a list of n issues on which predict succeeds, batch_predict returns
\* exactly n results, the i-th being predict(title_i, body_i, repo_i, threshold)
\* computed alone.
C7_BatchIsPointwisePredict ==
    (Done /\ call.op = "batch_predict"
          /\ \A i \in 1..Len(call.issues) : RepoInVocabulary(call.issues[i].repo)) =>
        /\ outcome.status = "ok"
        /\ Len(outcome.result) = Len(call.issues)
        /\ \A i \in 1..Len(call.issues) :
              /\ outcome.result[i] = PredictIssue(call.issues[i]).result
              /\ outcome.result[i].repo_context.repository = call.issues[i].repo

C7_Witness ==
    /\ call.op = "batch_predict"
    /\ Len(call.issues) = 2
    /\ call.issues[1].repo # call.issues[2].repo
    /\ call.issues[1].title # call.issues[2].title
    /\ outcome.status = "ok"
    /\ outcome.result[1].primary_category # outcome.result[2].primary_category

RankDone == Done /\ call.op = "get_recommendations"

\* C8 as claimed: with primary category is_bug_cat, a primary confidence of at
\* least 0.8 (0.8 included) gives high_confidence_bug, and one of at least 0.6
\* (0.6 included) and below 0.8 gives medium_confidence_bug.
C8_InclusiveTiers ==
    (RankDone /\ outcome.result.primary_category.category = "is_bug_cat") =>
        LET conf == outcome.result.primary_category.confidence
            recs == outcome.result.triage_recommendations
        IN  /\ conf >= 80 => \E i \in 1..Len(recs) : recs[i] = high_confidence_bug
            /\ (conf >= 60 /\ conf < 80) =>
                  \E i \in 1..Len(recs) : recs[i] = medium_confidence_bug

\* C8 amended: the cut-points are strict.  With primary category is_bug_cat, a
\* primary confidence strictly above 0.8 gives high_confidence_bug (priority
\* high); one strictly above 0.6 and at most 0.8 (0.8 included) gives
\* medium_confidence_bug (priority medium); at 0.6 or below neither is given.
C8_StrictTiers ==
    (RankDone /\ outcome.result.primary_category.category = "is_bug_cat") =>
        LET conf == outcome.result.primary_category.confidence
            recs == outcome.result.triage_recommendations
        IN  /\ conf > 80 =>
                  /\ \E i \in 1..Len(recs) :
                        recs[i].type = "high_confidence_bug" /\ recs[i].priority = "high"
                  /\ "medium_confidence_bug" \notin Types(recs)
            /\ (conf > 60 /\ conf <= 80) =>
                  /\ \E i \in 1..Len(recs) :
                        recs[i].type = "medium_confidence_bug"
                            /\ recs[i].priority = "medium"
                  /\ "high_confidence_bug" \notin Types(recs)
            /\ conf <= 60 =>
                  Types(recs) \cap {"high_confidence_bug", "medium_confidence_bug"} = {}

C8_Witness ==
    /\ RankDone
    /\ outcome.result.primary_category = 
          [category |-> "is_bug_cat", confidence |-> 80, action_needed |-> TRUE]
    /\ outcome.result.triage_recommendations = <<medium_confidence_bug>>

\* C9 as claimed: every primary category with action_needed true and primary
\* confidence 0.85 gets a recommendation with priority high.
C9_ActionableGetsHigh ==
    (RankDone /\ outcome.result.primary_category.action_needed
              /\ outcome.result.primary_category.confidence = 85) =>
        \E i \in 1..Len(outcome.result.triage_recommendations) :
            outcome.result.triage_recommendations[i].priority = "high"

\* C9 amended: at primary confidence 0.85, primary category is_bug_cat gets
\* high_confidence_bug with priority high; primary category is_priority_cat,
\* though action_needed is true for it too, has no rule and gets no
\* recommendation at all.
C9_OnlyBugGetsHigh ==
    (RankDone /\ outcome.result.primary_category.confidence = 85) =>
        LET primary == outcome.result.primary_category
            recs == outcome.result.triage_recommendations
        IN  /\ primary.category = "is_bug_cat" =>
                  /\ primary.action_needed
                  /\ recs = <<high_confidence_bug>>
                  /\ recs[1].priority = "high"
            /\ primary.category = "is_priority_cat" =>
                  /\ primary.action_needed
                  /\ recs = <<>>

C9_Witness ==
    /\ RankDone
    /\ outcome.result.primary_category =
          [category |-> "is_priority_cat", confidence |-> 85, action_needed |-> TRUE]
    /\ outcome.result.triage_recommendations = <<>>

\* C10: when the primary confidence is below 0.4, whatever the primary
\* category, triage_recommendations contains low_confidence (manual review,
\* priority medium) and secondary_suggestions contains every entry of ranks 1
\* to 3 whose confidence exceeds threshold / 2; when it is 0.4 or more there is
\* no low_confidence recommendation and rank 3 is not in secondary_suggestions.
C10_LowConfidenceWidening ==
    RankDone =>
        LET primary == outcome.result.primary_category
            recs == outcome.result.triage_recommendations
            secondary == outcome.result.secondary_suggestions
        IN  /\ primary.confidence < 40 =>
                  /\ \E i \in 1..Len(recs) :
                        /\ recs[i].type = "low_confidence"
                        /\ recs[i].priority = "medium"
                        /\ recs[i].message =
                              "Low confidence prediction - Manual review recommended"
                  /\ \A r \in 2..4 :
                        (r <= Len(Ranked) /\ 2 * Ranked[r].confidence > call.threshold) =>
                            \E j \in 1..Len(secondary) :
                                /\ secondary[j].category = Ranked[r].category
                                /\ secondary[j].confidence = Ranked[r].confidence
            /\ primary.confidence >= 40 =>
                  /\ "low_confidence" \notin Types(recs)
                  /\ Len(Ranked) >= 4 => Ranked[4].category \notin Categories(secondary)

C10_Witness ==
    /\ RankDone
    /\ outcome.result.primary_category.confidence = 35
    /\ call.threshold = 30
    /\ Ranked[4].confidence = 20
    /\ Ranked[4].category \in Categories(outcome.result.secondary_suggestions)
    /\ Ranked[3].confidence <= call.threshold

(***************************************************************************)
(* C11: order of the ranked list                                           *)
(***************************************************************************)

\* position of a category in the classifier's native class order
ClassId(cat) == CHOOSE i \in 1..Len(label_classes) : label_classes[i] = cat

\* C11: the ranked list holds every class once with its own probability, in
\* descending probability, and two classes of identical probability keep their
\* native class order; the primary category is the first entry of that list.
C11_StableDescendingRank ==
    RankDone =>
        LET n == Len(call.proba)
        IN  /\ Len(Ranked) = n
            /\ \A c \in 1..n : \E i \in 1..n :
                  /\ Ranked[i].category = label_classes[c]
                  /\ Ranked[i].confidence = call.proba[c]
            /\ \A i, j \in 1..n : i < j =>
                  \/ Ranked[i].confidence > Ranked[j].confidence
                  \/ /\ Ranked[i].confidence = Ranked[j].confidence
                     /\ ClassId(Ranked[i].category) < ClassId(Ranked[j].category)
            /\ outcome.result.primary_category.category = Ranked[1].category
            /\ outcome.result.primary_category.confidence = Ranked[1].confidence

\* the two highest classes tie, and neither is the first class
C11_Witness ==
    /\ RankDone
    /\ call.proba = <<10, 40, 40, 10>>
    /\ outcome.result.primary_category.category = "is_doc_cat"
    /\ Ranked[2].category = "is_feature_cat"
    /\ Ranked[3].category = "is_bug_cat"
    /\ Ranked[4].category = "is_priority_cat"

(***************************************************************************)
(* C12, C13: the urgency score and the code-block count                    *)
(***************************************************************************)
TextDone == Done /\ call.op = "basic_features"

\* sub occurs in s at place i, ignoring the case of s
OccursAt(s, i, sub) ==
    /\ i + Len(sub) - 1 <= Len(s)
    /\ \A k \in 1..Len(sub) : LowerChar(s[i + k - 1]) = sub[k]

\* the urgent-word occurrences of a field, ignoring case
UrgentOccurrences(s) ==
    {<<w, i>> \in (1..Len(urgent_words)) \X (1..Len(s)) :
        OccursAt(s, i, urgent_words[w])}

\* the places of s that hold an exclamation mark
ExclamationMarks(s) == {i \in 1..Len(s) : s[i] = "!"}

\* C12 as claimed: urgency_score is the number of urgent-word occurrences in
\* title and body plus the number of exclamation marks in title and body.
C12_UrgencyCountsMarks ==
    TextDone =>
        outcome.features["urgency_score"] =
              Cardinality(UrgentOccurrences(outcome.title))
            + Cardinality(UrgentOccurrences(outcome.body))
            + Cardinality(ExclamationMarks(outcome.title))
            + Cardinality(ExclamationMarks(outcome.body))

\* C12 amended: urgency_score is the number of urgent-word occurrences in title
\* and body plus the number of the two fields, title and body, that hold at
\* least one exclamation mark (0, 1 or 2), however many marks a field holds.
C12_UrgencyCountsFieldsWithMark ==
    TextDone =>
        outcome.features["urgency_score"] =
              Cardinality(UrgentOccurrences(outcome.title))
            + Cardinality(UrgentOccurrences(outcome.body))
            + Cardinality({f \in {"title", "body"} :
                              ExclamationMarks(outcome[f]) # {}})

\* an urgent title over a body of two exclamation marks scores 2
C12_Witness ==
    /\ TextDone
    /\ outcome.title = Urgent
    /\ outcome.body = <<"!", "!">>
    /\ outcome.features["urgency_score"] = 2

\* C13: code_block_count is the number of fence markers of the body divided by
\* two and rounded down: 2k or 2k+1 markers give k, so one pair gives 1 and a
\* single marker gives 0; the markers of the title do not count.
C13_CodeBlocksAreMarkerPairs ==
    TextDone =>
        LET markers == Count(outcome.body, Fence)
            blocks  == outcome.features["code_block_count"]
        IN  /\ blocks \in 0..markers
            /\ markers \in {2 * blocks, 2 * blocks + 1}
            /\ markers = 2 => blocks = 1
            /\ markers = 1 => blocks = 0

\* a marker in the title and one complete pair in the body: one code block
C13_Witness ==
    /\ TextDone
    /\ outcome.title = Fence
    /\ outcome.body = Fence \o Fence
    /\ outcome.features["code_block_count"] = 1

(***************************************************************************)
(* C14, C16: the secondary suggestions                                     *)
(***************************************************************************)

\* the entry of rank r (0 is the primary) as a suggestion, when its confidence
\* is strictly above the threshold of the call
RankEntryAboveThreshold(r) ==
    IF Ranked[r + 1].confidence > call.threshold
    THEN <<[category |-> Ranked[r + 1].category,
            confidence |-> Ranked[r + 1].confidence,
            action_needed |->
                Ranked[r + 1].category \in {"is_bug_cat", "is_priority_cat"}]>>
    ELSE <<>>

\* C14: with a primary confidence of 0.4 or more, secondary_suggestions is the
\* rank-1 entry then the rank-2 entry, each kept only when its confidence is
\* strictly above threshold, with action_needed true exactly for is_bug_cat and
\* is_priority_cat.
C14_SecondaryIsRanksOneTwoAboveThreshold ==
    (RankDone /\ outcome.result.primary_category.confidence >= 40) =>
        outcome.result.secondary_suggestions =
            RankEntryAboveThreshold(1) \o RankEntryAboveThreshold(2)

\* rank 1 above the threshold and actionable, rank 2 exactly at the threshold
C14_Witness ==
    /\ RankDone
    /\ call.proba = <<50, 20, 0, 30>>
    /\ call.threshold = 20
    /\ outcome.result.secondary_suggestions =
          <<[category |-> "is_priority_cat", confidence |-> 30,
             action_needed |-> TRUE]>>

(***************************************************************************)
(* C15: the stored prediction of the session                               *)
(***************************************************************************)

\* C15: an event changes last_pred only by storing the result of a successful
\* predict, on a submit with a title or a body, or by removing it, on Reset.
\* A submit with neither title nor body warns, does not call predict and
\* keeps last_pred; a submit whose predict raises keeps last_pred, and the
\* page shows the error over the earlier prediction, when there is one.
C15_LastPredChanges ==
    LET before == call.before.last_pred
        after  == session.state.last_pred
        empty  == call.title = <<>> /\ call.body = <<>>
    IN  /\ call.op = "submit" =>
              /\ empty =>
                    /\ session.page.warning
                    /\ outcome = None
                    /\ after = before
              /\ ~empty =>
                    /\ ~session.page.warning
                    /\ outcome.status \in {"ok", "raised"}
                    /\ outcome.status = "ok" => after = Present(outcome.result)
                    /\ outcome.status = "raised" =>
                          /\ after = before
                          /\ session.page.error
              /\ session.page.shown = after.present
        /\ call.op = "reset" => after = Absent /\ outcome = None
        /\ call.op = "tag" => after = before /\ outcome = None

\* a prediction is on the page, the next submit fails, and the page still
\* shows the earlier prediction under the error
C15_Witness ==
    /\ call.op = "submit"
    /\ outcome.status = "raised"
    /\ call.before.last_pred.present
    /\ session.state.last_pred = call.before.last_pred
    /\ session.page.shown
    /\ session.page.error

\* C16: no category appears more than once among primary_category and the
\* entries of secondary_suggestions.
C16_NoCategoryTwice ==
    RankDone =>
        LET suggs == Suggestions(outcome.result)
        IN  \A i, j \in 1..Len(suggs) :
                suggs[i].category = suggs[j].category => i = j

(***************************************************************************)
(* C17: joining and splitting                                              *)
(***************************************************************************)

\* C17: the title and body recovered by splitting the joined text at its first
\* newline are the title and body that were joined, so the title and body
\* features are those of the caller's title and body.
C17_SplitRecoversTitleAndBody ==
    TextDone =>
        /\ outcome.title = call.title
        /\ outcome.body = call.body
        /\ outcome.features["title_length"] = Len(call.title)
        /\ outcome.features["body_length"] = Len(call.body)

====
